---- MODULE Spec2Model ----
(***************************************************************************)
(* Model of the Wardrobe Designer page (pages/1_Wardrobe_Designer.py):     *)
(* the Streamlit session state kept by ensure_state and the bay editors,   *)
(* build_bays, and the primitives emitted by draw_elevation and            *)
(* draw_isometric.                                                         *)
(*                                                                         *)
(* Coordinates are millimetres.  A point is <<x, y>> of integers; a        *)
(* primitive carries the denominators sx and sy of its x and y values, so  *)
(* that the halves (tower_x, label x), fifths (drawer fronts) and          *)
(* thousandths (label y) of the code are kept as exact rationals; the      *)
(* doubles matplotlib receives for these three differ from them by one     *)
(* rounding (below 10^-12 mm).  The products int(v * c), on which every    *)
(* other coordinate rests, are computed as Python computes them: an        *)
(* IEEE-754 double multiplication rounded to nearest-even, then truncated  *)
(* (int(3000 * 0.58) is 1739, not 1740).                                   *)
(***************************************************************************)
EXTENDS Integers, Sequences, FiniteSets, TLC

VARIABLES has_widths, bay_widths, has_layouts, bay_layouts,
          num_bays, equal_widths, total_height, depth, customer_view,
          show_isometric, pc, edit_i, bays, elev, iso

vars == <<has_widths, bay_widths, has_layouts, bay_layouts,
          num_bays, equal_widths, total_height, depth, customer_view,
          show_isometric, pc, edit_i, bays, elev, iso>>

session == <<has_widths, bay_widths, has_layouts, bay_layouts>>
inputs == <<num_bays, equal_widths, total_height, depth, customer_view, show_isometric>>

(***************************************************************************)
(* Program constants (widget ranges and defaults).                         *)
(***************************************************************************)
MinHeight == 1800
MaxHeight == 3000
DefaultHeight == 2400
MinDepth == 400
MaxDepth == 800
DefaultDepth == 600
DefaultNumBays == 4
MinNumBays == 1
MaxNumBays == 8
MinBayWidth == 300
MaxBayWidth == 1200
WidgetStep == 10
default_bay_width == 600
drawer_count == 5
RailInset == 40
layouts == <<"Single", "Drawer tower", "Double">>

(***************************************************************************)
(* Bounds of the model.                                                    *)
(***************************************************************************)
BayBound == 2
LayoutBays == 3
NumWidths == 1
NumHeights == 1
NumDepths == 0

Min(a, b) == IF a < b THEN a ELSE b

\* values a user enters in the number inputs (any integer in range can be
\* typed; the step only drives the +/- buttons), next to the defaults
NumBaysChoices == MinNumBays..Min(MaxNumBays, BayBound)
WidthChoices == {w \in MinBayWidth..MaxBayWidth :
                   \E k \in 0..(NumWidths - 1) : w = MinBayWidth + k * (WidgetStep + 1)}
HeightChoices == {DefaultHeight} \cup
                 {h \in MinHeight..MaxHeight :
                   \E k \in 0..(NumHeights - 1) : h = MaxHeight - k * WidgetStep}
DepthChoices == {DefaultDepth} \cup
                {d \in MinDepth..MaxDepth :
                   \E k \in 0..(NumDepths - 1) : d = MinDepth + k * (WidgetStep + 1)}
LayoutChoices == {layouts[i] : i \in 1..Len(layouts)}

(***************************************************************************)
(* Python float arithmetic: v * c for an int v and a float literal c,      *)
(* then int().  A literal is [mant, exp]: the 53-bit significand of the    *)
(* double nearest to the decimal, as four base-2^16 limbs (least           *)
(* significant first), and exp with c = significand / 2^exp.               *)
(***************************************************************************)
LimbBase == 65536
LimbBits == 16
SignificandBits == 53

F005 == [mant |-> <<39322, 39321, 39321, 25>>, exp |-> 57]  \* 0.05 = 0x1.999999999999ap-5
F012 == [mant |-> <<7864, 60293, 47185, 30>>, exp |-> 56]   \* 0.12 = 0x1.eb851eb851eb8p-4
F020 == [mant |-> <<39322, 39321, 39321, 25>>, exp |-> 55]  \* 0.20 = 0x1.999999999999ap-3
F030 == [mant |-> <<13107, 13107, 13107, 19>>, exp |-> 54]  \* 0.30 = 0x1.3333333333333p-2
F050 == [mant |-> <<0, 0, 0, 16>>, exp |-> 53]              \* 0.50 = 0x1.0000000000000p-1
F055 == [mant |-> <<39322, 39321, 39321, 17>>, exp |-> 53]  \* 0.55 = 0x1.199999999999ap-1
F058 == [mant |-> <<49807, 10485, 36700, 18>>, exp |-> 53]  \* 0.58 = 0x1.28f5c28f5c28fp-1
F060 == [mant |-> <<13107, 13107, 13107, 19>>, exp |-> 53]  \* 0.60 = 0x1.3333333333333p-1
F062 == [mant |-> <<41943, 15728, 55050, 19>>, exp |-> 53]  \* 0.62 = 0x1.3d70a3d70a3d7p-1
F075 == [mant |-> <<0, 0, 0, 24>>, exp |-> 53]              \* 0.75 = 0x1.8000000000000p-1
F085 == [mant |-> <<13107, 13107, 13107, 27>>, exp |-> 53]  \* 0.85 = 0x1.b333333333333p-1

Pow2Table == <<1, 2, 4, 8, 16, 32, 64, 128, 256, 512, 1024, 2048, 4096,
               8192, 16384, 32768, 65536>>
Pow2(n) == Pow2Table[n + 1]

\* v * significand as base-2^16 limbs, least significant first (exact).
RECURSIVE MulLimbs(_, _, _, _)
MulLimbs(v, mant, i, carry) ==
  IF i > Len(mant) THEN <<carry>>
  ELSE LET t == v * mant[i] + carry
       IN <<t % LimbBase>> \o MulLimbs(v, mant, i + 1, t \div LimbBase)

\* bit j (0 = least significant) of a limb sequence
Bit(limbs, j) ==
  IF (j \div LimbBits) + 1 > Len(limbs) THEN 0
  ELSE (limbs[(j \div LimbBits) + 1] \div Pow2(j % LimbBits)) % 2

\* number of significant bits of a limb sequence (0 for zero)
BitLength(limbs) ==
  LET nz == {i \in 1..Len(limbs) : limbs[i] # 0}
  IN IF nz = {} THEN 0
     ELSE LET top == CHOOSE i \in nz : \A j \in nz : j <= i
              n == CHOOSE m \in 1..LimbBits :
                     limbs[top] < Pow2(m) /\ limbs[top] >= Pow2(m - 1)
          IN (top - 1) * LimbBits + n

\* floor(limbs / 2^k), for a quotient that fits a machine integer
RECURSIVE ShiftLimbs(_, _, _, _)
ShiftLimbs(limbs, i, r, weight) ==
  IF i > Len(limbs) THEN 0
  ELSE (limbs[i] * weight) \div Pow2(r) + ShiftLimbs(limbs, i + 1, 0, weight * Pow2(LimbBits - r))

ShiftRight(limbs, k) == ShiftLimbs(limbs, (k \div LimbBits) + 1, k % LimbBits, 1)

\* int(v * c): the exact product P = v * significand is rounded to 53
\* significant bits (nearest, ties to even) and the result divided by 2^exp
\* is truncated.  Rounding up reaches the next integer exactly when every
\* kept bit below the binary point is 1.
FloatMulInt(v, c) ==
  LET P == MulLimbs(v, c.mant, 1, 0)
      L == BitLength(P)
      s == L - SignificandBits
      lowNonZero == \E j \in 0..(s - 2) : Bit(P, j) = 1
      roundUp == /\ s >= 1
                 /\ Bit(P, s - 1) = 1
                 /\ (lowNonZero \/ Bit(P, s) = 1)
      carryOut == roundUp /\ \A j \in s..(c.exp - 1) : Bit(P, j) = 1
  IN ShiftRight(P, c.exp) + (IF carryOut THEN 1 ELSE 0)

(***************************************************************************)
(* Data model and primitives.                                              *)
(***************************************************************************)
Bay(w, layout) == [width_mm |-> w, layout |-> layout]

\* A drawn primitive: the matplotlib call (kind), what it depicts (role),
\* the 1-based bay it belongs to (0 for the carcass), its points, and the
\* denominators of its x and y values.
Prim(kind, role, bay, pts, sx, sy) ==
  [kind |-> kind, role |-> role, bay |-> bay, pts |-> pts, sx |-> sx, sy |-> sy]

RectPrim(role, bay, x, y, w, h) == Prim("rect", role, bay, <<<<x, y>>, <<x + w, y + h>>>>, 1, 1)
HLine(role, bay, xa, xb, y) == Prim("line", role, bay, <<<<xa, y>>, <<xb, y>>>>, 1, 1)
VLine(role, bay, x, ya, yb) == Prim("line", role, bay, <<<<x, ya>>, <<x, yb>>>>, 1, 1)

RECURSIVE SumWidthsFrom(_, _)
SumWidthsFrom(bs, i) ==
  IF i > Len(bs) THEN 0 ELSE bs[i].width_mm + SumWidthsFrom(bs, i + 1)

total_width_short(bs) == SumWidthsFrom(bs, 2)
\* sum(b.width_mm for b in bays)
total_width(bs) == SumWidthsFrom(bs, 1)

(***************************************************************************)
(* draw_elevation: internals of one bay whose left edge is at x.           *)
(***************************************************************************)
TowerShelfY_high(H) == FloatMulInt(H, F060) + FloatMulInt(H, F050)
\* shelf_y = tower_h + int(height_mm * 0.05)
TowerShelfY(H) == FloatMulInt(H, F060) + FloatMulInt(H, F005)

TowerInternals(idx, x, w, H, cv) ==
  LET tower_w == FloatMulInt(w, F055)
      tower_x2 == 2 * x + (w - tower_w)          \* twice tower_x
      tower_h == FloatMulInt(H, F060)
      fronts == [d \in 1..(drawer_count - 1) |->
                   Prim("line", "drawer_front", idx,
                        <<<<tower_x2, d * tower_h>>, <<tower_x2 + 2 * tower_w, d * tower_h>>>>,
                        2, drawer_count)]
      shelf_y == TowerShelfY(H)
  IN <<Prim("rect", "tower", idx,
            <<<<tower_x2, 0>>, <<tower_x2 + 2 * tower_w, tower_h>>>>, 2, 1)>>
     \o fronts
     \o (IF ~cv THEN <<HLine("tower_shelf", idx, x + RailInset, x + w - RailInset, shelf_y)>>
         ELSE <<>>)

DoubleInternals_lowtop(idx, x, w, H, cv) ==
  LET top_y == FloatMulInt(H, F050)
      mid_y == FloatMulInt(H, F012)
  IN <<HLine("top_rail", idx, x + RailInset, x + w - RailInset, top_y),
       HLine("bottom_rail", idx, x + RailInset, x + w - RailInset,
             mid_y + FloatMulInt(H, F020))>>
     \o (IF ~cv THEN <<HLine("split_shelf", idx, x + RailInset, x + w - RailInset,
                             FloatMulInt(H, F050))>>
         ELSE <<>>)

DoubleInternals(idx, x, w, H, cv) ==
  LET top_y == FloatMulInt(H, F058)
      mid_y == FloatMulInt(H, F012)
  IN <<HLine("top_rail", idx, x + RailInset, x + w - RailInset, top_y),
       HLine("bottom_rail", idx, x + RailInset, x + w - RailInset,
             mid_y + FloatMulInt(H, F020))>>
     \o (IF ~cv THEN <<HLine("split_shelf", idx, x + RailInset, x + w - RailInset,
                             FloatMulInt(H, F050))>>
         ELSE <<>>)

SingleInternals_moved(idx, x, w, H, cv) ==
  IF cv THEN <<HLine("rail", idx, x + RailInset, x + w - RailInset, FloatMulInt(H, F060))>>
  ELSE <<HLine("rail", idx, x + RailInset, x + w - RailInset, FloatMulInt(H, F062)),
         HLine("top_shelf", idx, x + RailInset, x + w - RailInset, FloatMulInt(H, F085))>>

SingleInternals(idx, x, w, H, cv) ==
  <<HLine("rail", idx, x + RailInset, x + w - RailInset, FloatMulInt(H, F062))>>
  \o (IF ~cv THEN <<HLine("top_shelf", idx, x + RailInset, x + w - RailInset,
                          FloatMulInt(H, F085))>>
      ELSE <<>>)

\* the if / elif / else on bay.layout
Internals(idx, bay, x, H, cv) ==
  IF bay.layout = "Drawer tower" THEN TowerInternals(idx, x, bay.width_mm, H, cv)
  ELSE IF bay.layout = "Double" THEN DoubleInternals(idx, x, bay.width_mm, H, cv)
  ELSE SingleInternals(idx, x, bay.width_mm, H, cv)

\* ax.text(x + w / 2, -height_mm * 0.035, f"{w}mm"): x in halves, y in thousandths
WidthLabel(idx, bay, x, H) ==
  Prim("text", "width_label", idx, <<<<2 * x + bay.width_mm, -(35 * H)>>>>, 2, 1000)

DividerAt_left(idx, bay, x, H) == VLine("divider", idx, x, 0, H)
\* ax.plot([x + w, x + w], [0, height_mm])
DividerAt(idx, bay, x, H) == VLine("divider", idx, x + bay.width_mm, 0, H)

BayPrims_labelfirst(bs, idx, x, H, cv) ==
  (IF ~cv THEN <<WidthLabel(idx, bs[idx], x, H)>> ELSE <<>>)
  \o <<RectPrim("bay_outline", idx, x, 0, bs[idx].width_mm, H)>>
  \o (IF idx < Len(bs) THEN <<DividerAt(idx, bs[idx], x, H)>> ELSE <<>>)
  \o Internals(idx, bs[idx], x, H, cv)

\* one iteration of the loop over enumerate(bays), idx 1-based
BayPrims(bs, idx, x, H, cv) ==
  <<RectPrim("bay_outline", idx, x, 0, bs[idx].width_mm, H)>>
  \o (IF idx < Len(bs) THEN <<DividerAt(idx, bs[idx], x, H)>> ELSE <<>>)
  \o Internals(idx, bs[idx], x, H, cv)
  \o (IF ~cv THEN <<WidthLabel(idx, bs[idx], x, H)>> ELSE <<>>)

\* the loop: the primitives emitted from bay idx on, and the final running x
RECURSIVE ElevLoop(_, _, _, _, _)
ElevLoop(bs, idx, x, H, cv) ==
  IF idx > Len(bs) THEN [prims |-> <<>>, x |-> x]
  ELSE LET rest == ElevLoop(bs, idx + 1, x + bs[idx].width_mm, H, cv)
       IN [prims |-> BayPrims(bs, idx, x, H, cv) \o rest.prims, x |-> rest.x]

draw_elevation(bs, H, cv) ==
  LET tw == total_width(bs)
      loop == ElevLoop(bs, 1, 0, H, cv)
  IN [prims |-> <<RectPrim("carcass", 0, 0, 0, tw, H)>> \o loop.prims,
      x |-> loop.x,
      xlim |-> <<0, tw>>,
      title |-> IF cv THEN "Wardrobe (Customer View)" ELSE "Wardrobe (Installer View)"]

(***************************************************************************)
(* draw_isometric.                                                         *)
(***************************************************************************)
iso_dx_swapped(D) == FloatMulInt(D, F030)
\* dx = int(depth_mm * 0.55)
iso_dx(D) == FloatMulInt(D, F055)
\* dy = int(depth_mm * 0.30)
iso_dy(D) == FloatMulInt(D, F030)

\* for i, bay in enumerate(bays[:-1]): x += bay.width_mm; front and top line
RECURSIVE IsoDividers(_, _, _, _, _, _)
IsoDividers(bs, idx, x, H, dx, dy) ==
  IF idx > Len(bs) - 1 THEN <<>>
  ELSE LET nx == x + bs[idx].width_mm
       IN <<VLine("divider", idx, nx, 0, H),
            Prim("line", "divider_top", idx, <<<<nx, H>>, <<nx + dx, H + dy>>>>, 1, 1)>>
          \o IsoDividers(bs, idx + 1, nx, H, dx, dy)

\* if not customer_view: one internal line per bay
RECURSIVE IsoHints(_, _, _, _)
IsoHints(bs, idx, x, H) ==
  IF idx > Len(bs) THEN <<>>
  ELSE <<HLine("internal_hint", idx, x + RailInset, x + bs[idx].width_mm - RailInset,
               FloatMulInt(H, F075))>>
       \o IsoHints(bs, idx + 1, x + bs[idx].width_mm, H)

draw_isometric(bs, H, D, cv) ==
  LET tw == total_width(bs)
      dx == iso_dx(D)
      dy == iso_dy(D)
  IN [prims |->
        <<RectPrim("carcass", 0, 0, 0, tw, H),
          Prim("line", "top_outline", 0,
               <<<<0, H>>, <<dx, H + dy>>, <<tw + dx, H + dy>>, <<tw, H>>, <<0, H>>>>, 1, 1),
          Prim("line", "side_outline", 0, <<<<tw, 0>>, <<tw + dx, dy>>>>, 1, 1),
          Prim("line", "side_outline", 0, <<<<tw + dx, dy>>, <<tw + dx, H + dy>>>>, 1, 1)>>
        \o IsoDividers(bs, 1, 0, H, dx, dy)
        \o (IF ~cv THEN IsoHints(bs, 1, 0, H) ELSE <<>>),
      dx |-> dx,
      dy |-> dy,
      title |-> IF cv THEN "Isometric (Customer View)" ELSE "Isometric (Installer View)"]

(***************************************************************************)
(* Session state helpers.  A missing key is has_* = FALSE; every value the *)
(* page stores is the result of int(...) or a selectbox option, so the     *)
(* isinstance tests on the elements hold of every stored list.             *)
(***************************************************************************)
Repeat(v, n) == [i \in 1..n |-> v]

IsListOfLen_atleast(present, x, n) == present /\ Len(x) >= n
\* _is_int_list(x, n) and _is_str_list(x, n)
IsListOfLen(present, x, n) == present /\ Len(x) = n

\* zip(bay_widths, bay_layouts): stops at the shorter list
build_bays(ws, ls) == [i \in 1..Min(Len(ws), Len(ls)) |-> Bay(ws[i], ls[i])]

EqualWidthsList_firstonly(w, n) == [i \in 1..n |-> IF i = 1 THEN w ELSE default_bay_width]
\* [int(w)] * int(num_bays)
EqualWidthsList(w, n) == Repeat(w, n)

WidthInput_nomin(current) == WidthChoices \cup {current, 0}
\* st.number_input(min_value=300, max_value=1200, value=current): the value
\* shown by default or any in-range value the user has entered
WidthInput(current) ==
  {v \in WidthChoices \cup {current} : v >= MinBayWidth /\ v <= MaxBayWidth}

\* st.selectbox("Internal", layouts, index=...)
LayoutInput(current) == LayoutChoices

(***************************************************************************)
(* The page script, one action per statement group; pc is the position.    *)
(***************************************************************************)
Init ==
  /\ has_widths = FALSE /\ bay_widths = <<>>
  /\ has_layouts = FALSE /\ bay_layouts = <<>>
  /\ num_bays = Min(DefaultNumBays, BayBound)
  /\ equal_widths = TRUE
  /\ total_height = DefaultHeight
  /\ depth = DefaultDepth
  /\ customer_view = TRUE
  /\ show_isometric = FALSE
  /\ pc = "ensure_state"
  /\ edit_i = 0
  /\ bays = <<>>
  /\ elev = <<>>
  /\ iso = <<>>

\* A widget interaction reruns the script top to bottom, also while a run is
\* under way; the sidebar widgets return what the user has set.
Rerun ==
  /\ pc # "ensure_state"
  /\ num_bays' \in NumBaysChoices
  /\ equal_widths' \in BOOLEAN
  /\ total_height' \in {DefaultHeight, MinHeight}
  /\ depth' \in DepthChoices
  /\ customer_view' \in BOOLEAN
  /\ show_isometric' \in BOOLEAN
  /\ pc' = "ensure_state"
  /\ edit_i' = 0
  /\ bays' = <<>> /\ elev' = <<>> /\ iso' = <<>>
  /\ UNCHANGED session

ensure_state_keep(n, dw) ==
  /\ IF ~IsListOfLen_atleast(has_widths, bay_widths, n)
       THEN has_widths' = TRUE /\ bay_widths' = Repeat(dw, n)
       ELSE UNCHANGED <<has_widths, bay_widths>>
  /\ IF ~IsListOfLen_atleast(has_layouts, bay_layouts, n)
       THEN has_layouts' = TRUE /\ bay_layouts' = Repeat("Single", n)
       ELSE UNCHANGED <<has_layouts, bay_layouts>>

ensure_state(n, dw) ==
  /\ IF ~IsListOfLen(has_widths, bay_widths, n)
       THEN has_widths' = TRUE /\ bay_widths' = Repeat(dw, n)
       ELSE UNCHANGED <<has_widths, bay_widths>>
  /\ IF ~IsListOfLen(has_layouts, bay_layouts, n)
       THEN has_layouts' = TRUE /\ bay_layouts' = Repeat("Single", n)
       ELSE UNCHANGED <<has_layouts, bay_layouts>>

EnsureState ==
  /\ pc = "ensure_state"
  /\ ensure_state(num_bays, default_bay_width)
  /\ pc' = "equal_widths"
  /\ UNCHANGED <<inputs, edit_i, bays, elev, iso>>

\* if equal_widths: one control, applied to all bays
ApplyEqualWidth ==
  /\ pc = "equal_widths"
  /\ equal_widths
  /\ \E w \in WidthInput(bay_widths[1]) :
       bay_widths' = EqualWidthsList(w, num_bays)
  /\ pc' = "editors"
  /\ edit_i' = 1
  /\ UNCHANGED <<has_widths, has_layouts, bay_layouts, inputs, bays, elev, iso>>

SkipEqualWidth ==
  /\ pc = "equal_widths"
  /\ ~equal_widths
  /\ pc' = "editors"
  /\ edit_i' = 1
  /\ UNCHANGED <<session, inputs, bays, elev, iso>>

\* one iteration of for i in range(num_bays): width (custom mode) and layout
EditBay ==
  /\ pc = "editors"
  /\ edit_i <= num_bays
  /\ IF ~equal_widths
       THEN \E w \in WidthInput(bay_widths[edit_i]) :
              bay_widths' = [bay_widths EXCEPT ![edit_i] = w]
       ELSE UNCHANGED bay_widths
  /\ \E l \in LayoutInput(bay_layouts[edit_i]) :
       bay_layouts' = [bay_layouts EXCEPT ![edit_i] = l]
  /\ edit_i' = edit_i + 1
  /\ UNCHANGED <<has_widths, has_layouts, inputs, pc, bays, elev, iso>>

BuildBays ==
  /\ pc = "editors"
  /\ edit_i > num_bays
  /\ bays' = build_bays(bay_widths, bay_layouts)
  /\ pc' = "elevation"
  /\ UNCHANGED <<session, inputs, edit_i, elev, iso>>

DrawElevation ==
  /\ pc = "elevation"
  /\ elev' = draw_elevation(bays, total_height, customer_view)
  /\ pc' = IF show_isometric THEN "isometric" ELSE "summary"
  /\ UNCHANGED <<session, inputs, edit_i, bays, iso>>

DrawIsometric ==
  /\ pc = "isometric"
  /\ iso' = draw_isometric(bays, total_height, depth, customer_view)
  /\ pc' = "summary"
  /\ UNCHANGED <<session, inputs, edit_i, bays, elev>>

\* "Reset designer": delete both keys, then st.rerun() with the widgets as set
Reset ==
  /\ pc = "summary"
  /\ has_widths' = FALSE /\ bay_widths' = <<>>
  /\ has_layouts' = FALSE /\ bay_layouts' = <<>>
  /\ pc' = "ensure_state"
  /\ edit_i' = 0
  /\ bays' = <<>> /\ elev' = <<>> /\ iso' = <<>>
  /\ UNCHANGED inputs

Next ==
  \/ Rerun
  \/ EnsureState
  \/ ApplyEqualWidth
  \/ SkipEqualWidth
  \/ EditBay
  \/ BuildBays
  \/ DrawElevation
  \/ DrawIsometric
  \/ Reset

Spec == Init /\ [][Next]_vars

(***************************************************************************)
(* The drawing functions on every configuration the editors can build_bays  *)
(* into: the script stands before draw_elevation with the isometric view   *)
(* switched on.                                                            *)
(***************************************************************************)
BaySeqs(maxn, widths) ==
  UNION {[1..n -> [width_mm : widths, layout : LayoutChoices]] : n \in 1..maxn}

BeforeDrawing(bs, H, D, cv) ==
  /\ has_widths = TRUE /\ bay_widths = [i \in 1..Len(bs) |-> bs[i].width_mm]
  /\ has_layouts = TRUE /\ bay_layouts = [i \in 1..Len(bs) |-> bs[i].layout]
  /\ num_bays = Len(bs)
  /\ equal_widths = FALSE
  /\ total_height = H
  /\ depth = D
  /\ customer_view = cv
  /\ show_isometric = TRUE
  /\ pc = "elevation"
  /\ edit_i = Len(bs) + 1
  /\ bays = bs
  /\ elev = <<>>
  /\ iso = <<>>

DrawNext ==
  \/ DrawElevation
  \/ DrawIsometric

\* several bays, a few heights, the default depth
InitLayout ==
  \E bs \in BaySeqs(Min(MaxNumBays, LayoutBays),
                    {default_bay_width, MinBayWidth + WidgetStep + 1}),
     H \in HeightChoices, cv \in BOOLEAN :
    BeforeDrawing(bs, H, DefaultDepth, cv)

SpecLayout == InitLayout /\ [][DrawNext]_vars

\* one bay, every height of the Height input
InitHeight ==
  \E bs \in BaySeqs(1, WidthChoices \cup {default_bay_width}),
     H \in MinHeight..MaxHeight, cv \in BOOLEAN :
    BeforeDrawing(bs, H, DefaultDepth, cv)

SpecHeight == InitHeight /\ [][DrawNext]_vars

\* every depth of the Depth input
InitDepth ==
  \E bs \in BaySeqs(Min(MaxNumBays, BayBound), {default_bay_width}),
     H \in HeightChoices, D \in MinDepth..MaxDepth :
    BeforeDrawing(bs, H, D, TRUE)

SpecDepth == InitDepth /\ [][DrawNext]_vars

(***************************************************************************)
(* Vocabulary of the properties.                                           *)
(***************************************************************************)
ElevDrawn == pc \in {"isometric", "summary"}
IsoDrawn == pc = "summary" /\ show_isometric
BaysBuilt == pc \in {"elevation", "isometric", "summary"}
Installer == ~customer_view

Range(f) == {f[i] : i \in DOMAIN f}

RECURSIVE SeqSum(_)
SeqSum(q) == IF q = <<>> THEN 0 ELSE Head(q) + SeqSum(Tail(q))

\* left edge of bay i: the widths of the bays before it
WidthsBefore(bs, i) == SeqSum([j \in 1..(i - 1) |-> bs[j].width_mm])
WholeWidth(bs) == WidthsBefore(bs, Len(bs) + 1)

WithRole(prims, role) == SelectSeq(prims, LAMBDA p : p.role = role)

\* C1: exact sum.  The carcass rectangle of either view is as wide as the
\* bay widths add up to, the running x of draw_elevation ends on its right
\* edge, and the bay outlines tile [0, total width]: bay i starts where bay
\* i - 1 ended, the first at 0, the last ending at the carcass right edge.
C1_ExactSum ==
  /\ ElevDrawn =>
       LET c == elev.prims[1]
           outl == WithRole(elev.prims, "bay_outline")
       IN /\ c.role = "carcass"
          /\ c.pts = <<<<0, 0>>, <<WholeWidth(bays), total_height>>>>
          /\ elev.x = c.pts[2][1]
          /\ Len(outl) = Len(bays)
          /\ \A i \in 1..Len(outl) :
               /\ outl[i].pts[1][1] = (IF i = 1 THEN 0 ELSE outl[i - 1].pts[2][1])
               /\ outl[i].pts[2][1] = outl[i].pts[1][1] + bays[i].width_mm
          /\ outl[Len(outl)].pts[2][1] = c.pts[2][1]
  /\ IsoDrawn =>
       LET c == iso.prims[1]
       IN /\ c.role = "carcass"
          /\ c.pts = <<<<0, 0>>, <<WholeWidth(bays), total_height>>>>

C1_Witness ==
  /\ IsoDrawn
  /\ Len(bays) = 3
  /\ bays[1].width_mm # bays[2].width_mm
  /\ elev.x = bays[1].width_mm + bays[2].width_mm + bays[3].width_mm

\* C7: dividers.  For N bays each view emits exactly N - 1 divider lines, the
\* i-th at x = the widths of bays 1..i, from y = 0 to the carcass height; both
\* views use the same x positions, and the isometric view echoes each divider
\* onto the top face as the line (x, H) - (x + dx, H + dy).
C7_Dividers ==
  /\ ElevDrawn =>
       LET dv == WithRole(elev.prims, "divider")
       IN /\ Len(dv) = Len(bays) - 1
          /\ \A i \in 1..Len(dv) :
               /\ dv[i].kind = "line"
               /\ dv[i].pts = <<<<WidthsBefore(bays, i + 1), 0>>,
                                <<WidthsBefore(bays, i + 1), total_height>>>>
  /\ IsoDrawn =>
       LET dv == WithRole(iso.prims, "divider")
           tp == WithRole(iso.prims, "divider_top")
       IN /\ Len(dv) = Len(bays) - 1
          /\ Len(tp) = Len(bays) - 1
          /\ \A i \in 1..Len(dv) :
               /\ dv[i].pts = WithRole(elev.prims, "divider")[i].pts
               /\ dv[i].pts[1][1] = WidthsBefore(bays, i + 1)
               /\ tp[i].pts = <<<<dv[i].pts[1][1], total_height>>,
                                <<dv[i].pts[1][1] + iso.dx, total_height + iso.dy>>>>

C7_Witness ==
  /\ IsoDrawn
  /\ Len(bays) = 3
  /\ bays[1].width_mm # bays[2].width_mm
  /\ Len(WithRole(elev.prims, "divider")) = 2
  /\ Len(WithRole(iso.prims, "divider_top")) = 2

\* paint class of a primitive of the elevation
PaintClass(p) ==
  IF p.role = "carcass" THEN 0
  ELSE IF p.role = "bay_outline" THEN 1
  ELSE IF p.role = "divider" THEN 2
  ELSE IF p.role = "width_label" THEN 4
  ELSE 3

\* C6 as claimed: carcass outline, then all dividers, then all internals,
\* then all labels (the bay outlines left free): no primitive of a later
\* class is emitted before one of an earlier class.
C6_PaintOrderAsClaimed ==
  ElevDrawn =>
    \A i, j \in 1..Len(elev.prims) :
      (i < j /\ elev.prims[i].role # "bay_outline" /\ elev.prims[j].role # "bay_outline")
        => PaintClass(elev.prims[i]) <= PaintClass(elev.prims[j])

\* C6 amended: the carcass outline is emitted first and once; the bays follow
\* left to right, and within one bay the order is bay outline, divider,
\* internals, width label.  A label is emitted after the divider and the
\* internals of its own and of every earlier bay.
C6_PaintOrderPerBay ==
  ElevDrawn =>
    /\ elev.prims[1].role = "carcass"
    /\ \A i \in 2..Len(elev.prims) : elev.prims[i].role # "carcass"
    /\ \A i, j \in 1..Len(elev.prims) :
         i < j =>
           /\ elev.prims[i].bay <= elev.prims[j].bay
           /\ elev.prims[i].bay = elev.prims[j].bay
                => PaintClass(elev.prims[i]) <= PaintClass(elev.prims[j])
    /\ Installer => Len(WithRole(elev.prims, "width_label")) = Len(bays)

C6_Witness ==
  /\ ElevDrawn
  /\ Installer
  /\ Len(bays) = 3
  /\ \E i, j \in 1..Len(elev.prims) :
       /\ i < j
       /\ elev.prims[i].role = "width_label"
       /\ elev.prims[j].role = "divider"

\* C4: subset monotonicity.  Every primitive drawn at Customer detail is
\* drawn, with the same role, bay and coordinates, at Installer detail for
\* the same bays, height and depth, in the elevation and in the isometric
\* view.
C4_CustomerSubsetOfInstaller ==
  /\ ElevDrawn =>
       LET other == draw_elevation(bays, total_height, ~customer_view).prims
       IN IF customer_view THEN Range(elev.prims) \subseteq Range(other)
          ELSE Range(other) \subseteq Range(elev.prims)
  /\ IsoDrawn =>
       LET other == draw_isometric(bays, total_height, depth, ~customer_view).prims
       IN IF customer_view THEN Range(iso.prims) \subseteq Range(other)
          ELSE Range(other) \subseteq Range(iso.prims)

C4_Witness ==
  /\ IsoDrawn
  /\ customer_view
  /\ Len(bays) = 3
  /\ {bays[i].layout : i \in 1..3} = LayoutChoices
  /\ \A i \in 1..3 :
       \E p \in Range(draw_elevation(bays, total_height, FALSE).prims) :
         p.bay = i /\ p \notin Range(elev.prims)
  /\ \E p \in Range(draw_isometric(bays, total_height, depth, FALSE).prims) :
       p \notin Range(iso.prims)

InternalLineRoles ==
  {"rail", "top_shelf", "top_rail", "bottom_rail", "split_shelf",
   "drawer_front", "tower_shelf", "internal_hint"}

\* y / sy lies in [0, H] for every point of the primitive (plinth = 0)
WithinCarcassHeight(p, H) ==
  \A k \in 1..Len(p.pts) : p.pts[k][2] >= 0 /\ p.pts[k][2] <= H * p.sy

\* C5: clamp containment.  The y of every rail, shelf, mid-divider and
\* drawer-front line of the elevation, of the internal line of the isometric
\* view, and the top edge of the drawer-tower rectangle lie in
\* [0, carcass height], for every height of the Height input.
C5_ClampContainment ==
  /\ ElevDrawn =>
       \A p \in Range(elev.prims) :
         (p.role \in InternalLineRoles \/ p.role = "tower")
           => WithinCarcassHeight(p, total_height)
  /\ IsoDrawn =>
       \A p \in Range(iso.prims) :
         p.role \in InternalLineRoles => WithinCarcassHeight(p, total_height)

C5_Witness ==
  /\ IsoDrawn
  /\ Installer
  /\ total_height = MinHeight
  /\ bays[1].layout = "Drawer tower"
  /\ \E p \in Range(elev.prims) : p.role = "tower_shelf" /\ p.pts[1][2] = 1170
  /\ \E p \in Range(elev.prims) : p.role = "drawer_front" /\ p.pts[1][2] = 4 * 1080
  /\ \E p \in Range(iso.prims) : p.role = "internal_hint" /\ p.pts[1][2] = 1350

\* y of the one line with the role in a Double bay (-1 when not drawn)
RailY(role) ==
  LET q == WithRole(elev.prims, role)
  IN IF Len(q) = 1 THEN q[1].pts[1][2] ELSE -1

\* the mid-divider of a Double bay: split_y = int(height_mm * 0.50)
MidDividerY(H) == FloatMulInt(H, F050)

DoubleDrawn == ElevDrawn /\ Len(bays) = 1 /\ bays[1].layout = "Double"

\* C9 as claimed: top rail in [mid + 300, H - 100], bottom rail in
\* [250, mid - 100].
C9_RailOrderingAsClaimed ==
  DoubleDrawn =>
    LET mid == MidDividerY(total_height)
    IN /\ RailY("top_rail") >= mid + 300
       /\ RailY("top_rail") <= total_height - 100
       /\ RailY("bottom_rail") >= 250
       /\ RailY("bottom_rail") <= mid - 100

\* C9 amended: in a Double bay, for every height of the Height input, the
\* top rail lies in [mid + 144, H - 100] and the bottom rail in
\* [250, mid - 100], where mid is the mid-divider (drawn at Installer
\* detail): bottom rail < mid-divider < top rail.
C9_RailOrdering ==
  DoubleDrawn =>
    LET mid == MidDividerY(total_height)
    IN /\ Installer => RailY("split_shelf") = mid
       /\ RailY("top_rail") >= mid + 144
       /\ RailY("top_rail") <= total_height - 100
       /\ RailY("bottom_rail") >= 250
       /\ RailY("bottom_rail") <= mid - 100
       /\ RailY("bottom_rail") < mid /\ mid < RailY("top_rail")

C9_Witness ==
  /\ DoubleDrawn
  /\ Installer
  /\ total_height = MaxHeight
  /\ RailY("top_rail") = 1739
  /\ RailY("split_shelf") = 1500
  /\ RailY("bottom_rail") = 960

\* the two side lines of the isometric view, in emission order
SideLines == WithRole(iso.prims, "side_outline")

IsoFaces(W, H, dx, dy) ==
  /\ iso.prims[1].pts = <<<<0, 0>>, <<W, H>>>>
  /\ Range(WithRole(iso.prims, "top_outline")[1].pts)
       = {<<0, H>>, <<W, H>>, <<W + dx, H + dy>>, <<dx, H + dy>>}
  /\ Len(SideLines) = 2
  /\ SideLines[1].pts = <<<<W, 0>>, <<W + dx, dy>>>>
  /\ SideLines[2].pts = <<<<W + dx, dy>>, <<W + dx, H + dy>>>>
  /\ Range(SideLines[1].pts) \cup Range(SideLines[2].pts) \cup {iso.prims[1].pts[2]}
       = {<<W, 0>>, <<W, H>>, <<W + dx, H + dy>>, <<W + dx, dy>>}

\* C8 as claimed: (dx, dy) = (0.55 * depth, 0.30 * depth) exactly.
C8_SkewAsClaimed ==
  IsoDrawn =>
    /\ 100 * iso.dx = 55 * depth
    /\ 100 * iso.dy = 30 * depth
    /\ IsoFaces(WholeWidth(bays), total_height, iso.dx, iso.dy)

\* C8 amended: for every depth of the Depth input the skew is 0.55 * depth
\* and 0.30 * depth truncated to whole millimetres (depth 600 gives
\* (330, 180)); the top outline has the vertices (0,H), (W,H), (W+dx,H+dy),
\* (dx,H+dy) and the side face, closed by the two side lines, the vertices
\* (W,0), (W,H), (W+dx,H+dy), (W+dx,dy).
C8_SkewTruncated ==
  IsoDrawn =>
    /\ iso.dx = (55 * depth) \div 100
    /\ iso.dy = (30 * depth) \div 100
    /\ depth = 600 => (iso.dx = 330 /\ iso.dy = 180)
    /\ IsoFaces(WholeWidth(bays), total_height, iso.dx, iso.dy)

C8_Witness ==
  /\ IsoDrawn
  /\ depth = 410
  /\ iso.dx = 225
  /\ iso.dy = 123
  /\ Len(bays) = 2

\* the equal-split policy of a total T over n bays: T div n each, one more
\* for the first T mod n
EqualSplit(T, n) == [i \in 1..n |-> (T \div n) + (IF i <= T % n THEN 1 ELSE 0)]

\* C2 as claimed: with bays kept at equal width the total width T of the
\* wardrobe is split over the n bays by the equal-split policy, so the
\* equal-width step turns the widths of total T into EqualSplit(T, n).
\* (Taken where the input is left at the width it displays, the total being
\* that of the widths the session holds.)
C2_EqualSplitAsClaimed ==
  [][(pc = "equal_widths" /\ equal_widths /\ bay_widths'[1] = bay_widths[1])
       => bay_widths' = EqualSplit(SeqSum(bay_widths), num_bays)]_vars

\* C2 amended: with bays kept at equal width the one width w of the "Bay
\* width" input, 300 <= w <= 1200, is given to each of the n bays; the
\* total is T = n * w, so T mod n = 0, every width is T div n and no
\* remainder is ever distributed (w = 600, n = 4 gives [600,600,600,600]).
C2_EqualWidths ==
  (equal_widths /\ pc \in {"editors", "elevation", "isometric", "summary"}) =>
    LET T == SeqSum(bay_widths)
    IN /\ Len(bay_widths) = num_bays
       /\ T % num_bays = 0
       /\ bay_widths = EqualSplit(T, num_bays)
       /\ \A i \in 1..num_bays :
            /\ bay_widths[i] = T \div num_bays
            /\ bay_widths[i] >= MinBayWidth /\ bay_widths[i] <= MaxBayWidth
       /\ BaysBuilt => \A i \in 1..Len(bays) : bays[i].width_mm = T \div num_bays

C2_Witness ==
  /\ equal_widths
  /\ pc = "summary"
  /\ num_bays = 2
  /\ bay_widths = <<MinBayWidth, MinBayWidth>>
  /\ bays[2].width_mm = MinBayWidth

\* C3: non-degeneracy.  After any sequence of runs, edits and resets every
\* bay width handed to the drawing functions is an integer >= 1.
C3_NonDegenerate ==
  BaysBuilt =>
    /\ Len(bays) >= 1
    /\ \A i \in 1..Len(bays) : bays[i].width_mm \in Nat /\ bays[i].width_mm >= 1

C3_Witness ==
  /\ pc = "summary"
  /\ ~equal_widths
  /\ Len(bays) = 2
  /\ bays[1].width_mm = default_bay_width
  /\ bays[2].width_mm = MinBayWidth

\* C10: shape of the session state.  While the editors run and when
\* build_bays is called both lists are present with exactly num_bays
\* entries, every index the editor loop uses is in range, and build_bays
\* returns num_bays bays; ensure_state replaces a list that is missing or of
\* another length by num_bays defaults (600 / "Single") and leaves a list of
\* the right length unchanged.
C10_ShapeState ==
  /\ pc \in {"equal_widths", "editors"} =>
       /\ has_widths /\ has_layouts
       /\ Len(bay_widths) = num_bays
       /\ Len(bay_layouts) = num_bays
  /\ (pc = "editors" /\ edit_i <= num_bays) =>
       edit_i \in DOMAIN bay_widths /\ edit_i \in DOMAIN bay_layouts
  /\ BaysBuilt =>
       /\ Len(bays) = num_bays
       /\ \A i \in 1..num_bays : bays[i] = Bay(bay_widths[i], bay_layouts[i])

C10_EnsureStep ==
  pc = "ensure_state" =>
    /\ IF has_widths /\ Len(bay_widths) = num_bays
         THEN bay_widths' = bay_widths
         ELSE bay_widths' = [i \in 1..num_bays |-> 600]
    /\ IF has_layouts /\ Len(bay_layouts) = num_bays
         THEN bay_layouts' = bay_layouts
         ELSE bay_layouts' = [i \in 1..num_bays |-> "Single"]
    /\ has_widths' /\ has_layouts'

C10_SessionShape == [](C10_ShapeState) /\ [][C10_EnsureStep]_vars

\* a run after the bay count went from its first value to 1: both lists
\* were of the wrong length and are the defaults again
C10_Witness ==
  /\ pc = "equal_widths"
  /\ num_bays = 1
  /\ num_bays # Min(DefaultNumBays, BayBound)
  /\ bay_widths = <<default_bay_width>>
  /\ bay_layouts = <<"Single">>

====
